---- MODULE Spec2Model ----
(***************************************************************************)
(* The embed block of blocks/library/embed/index.js: the URL-pattern       *)
(* registry (blockPatterns, matchesPatterns, findBlock,                    *)
(* getEmbedBlockDefinition) and the edit component's fetch-and-render      *)
(* state machine (componentWillMount, componentWillUnmount,                *)
(* doServerSideRender and its two promise continuations, render), and      *)
(* save.                                                                   *)
(*                                                                         *)
(* A URL is the sequence of its lexical tokens ("https", "://", "www",     *)
(* ".", "twitter", ...); a regular expression is a sequence of elements    *)
(* over those tokens, matched as JavaScript's String.prototype.match       *)
(* matches it (unanchored unless it starts with ^, flag i).                *)
(***************************************************************************)
EXTENDS Integers, Sequences, FiniteSets, TLC

\* ------------------------------------------------------------------ bounds

\* Number of embed block instances alive at the same time (mounted, or
\* unmounted with a promise handler still to run).
MaxInst == 1

\* ------------------------------------------------- regular expressions

\* JavaScript's `undefined`: an attribute or field that was never set. Strings
\* are token sequences here, and no token of a string is "#undefined".
Undefined == <<"#undefined">>

\* Tokens that are one character long (the only ones a regex `.` can match).
OneCharTokens == {".", "/", "-", "_", "a", "b", "g", "i", "m", "s", "x"}

\* A token in lower case (the flag 'i' of new RegExp( pattern, 'i' ) compares
\* letters by it; lodash's toLower applies it); a token not listed has no
\* upper-case letter.
ToLower(t) ==
    CASE t = "Animoto" -> "animoto"
      [] t = "COM" -> "com"
      [] t = "Cloudup" -> "cloudup"
      [] t = "CollegeHumor" -> "collegehumor"
      [] t = "Dailymotion" -> "dailymotion"
      [] t = "Die" -> "die"
      [] t = "Embed" -> "embed"
      [] t = "Example" -> "example"
      [] t = "Facebook" -> "facebook"
      [] t = "Flickr" -> "flickr"
      [] t = "Funny" -> "funny"
      [] t = "HTTPS" -> "https"
      [] t = "Hulu" -> "hulu"
      [] t = "Imgur" -> "imgur"
      [] t = "Instagram" -> "instagram"
      [] t = "Issuu" -> "issuu"
      [] t = "Kickstarter" -> "kickstarter"
      [] t = "Meetup" -> "meetup"
      [] t = "Mixcloud" -> "mixcloud"
      [] t = "Photobucket" -> "photobucket"
      [] t = "Polldaddy" -> "polldaddy"
      [] t = "Reddit" -> "reddit"
      [] t = "ReverbNation" -> "reverbnation"
      [] t = "Screencast" -> "screencast"
      [] t = "Scribd" -> "scribd"
      [] t = "Slideshare" -> "slideshare"
      [] t = "SmugMug" -> "smugmug"
      [] t = "SoundCloud" -> "soundcloud"
      [] t = "Speaker" -> "speaker"
      [] t = "Spotify" -> "spotify"
      [] t = "TED" -> "ted"
      [] t = "TWITTER" -> "twitter"
      [] t = "Tumblr" -> "tumblr"
      [] t = "Twitter" -> "twitter"
      [] t = "VideoPress" -> "videopress"
      [] t = "Vimeo" -> "vimeo"
      [] t = "WWW" -> "www"
      [] t = "WordPress" -> "wordpress"
      [] t = "YouTube" -> "youtube"
      [] OTHER -> t

Lit(t) == <<"lit", t>>
Dot == <<"dot", "">>
Plus == <<"plus", "">>
Opt(es) == <<"opt", es>>
Star(es) == <<"star", es>>
Alt(as) == <<"alt", as>>
Lits(ts) == [k \in 1..Len(ts) |-> Lit(ts[k])]

RECURSIVE Ends(_, _, _)
RECURSIVE ElemEnds(_, _, _)
RECURSIVE StarEnds(_, _, _, _)

\* The positions j such that element e matches s[from+1 .. j].
ElemEnds(e, s, from) ==
    CASE e[1] = "lit" ->
            IF from < Len(s) /\ ToLower(s[from + 1]) = ToLower(e[2])
            THEN {from + 1} ELSE {}
      [] e[1] = "dot" ->
            IF from < Len(s) /\ s[from + 1] \in OneCharTokens
            THEN {from + 1} ELSE {}
      [] e[1] = "plus" -> (from + 1)..Len(s)
      [] e[1] = "opt" -> {from} \cup Ends(e[2], s, from)
      [] e[1] = "alt" -> UNION {Ends(e[2][k], s, from) : k \in DOMAIN e[2]}
      [] e[1] = "star" -> StarEnds(e[2], s, {from}, {from})

\* Zero or more repetitions of es: the closure of `done` under one more match.
StarEnds(es, s, done, frontier) ==
    LET next == (UNION {Ends(es, s, j) : j \in frontier}) \ done
    IN IF next = {} THEN done ELSE StarEnds(es, s, done \cup next, next)

\* The positions j such that the element sequence es matches s[from+1 .. j].
Ends(es, s, from) ==
    IF es = <<>> THEN {from}
    ELSE UNION {Ends(Tail(es), s, j) : j \in ElemEnds(Head(es), s, from)}

\* url.match( new RegExp( pattern, 'i' ) ) on a string: a match anywhere,
\* or at the start only for a pattern that begins with ^.
RegExpMatch(url, pattern) ==
    IF pattern.anchored
    THEN Ends(pattern.elems, url, 0) # {}
    ELSE \E k \in 0..Len(url) : Ends(pattern.elems, url, k) # {}

Anchored(es) == [anchored |-> TRUE, elems |-> es]
Unanchored(es) == [anchored |-> FALSE, elems |-> es]

\* ^https?:\/\/
HttpS == <<Alt(<<Lits(<<"http">>), Lits(<<"https">>)>>), Lit("://")>>
\* (www\.)?
OptWww == <<Opt(Lits(<<"www", ".">>))>>
\* \.com\/.+
DotComRest == Lits(<<".", "com", "/">>) \o <<Plus>>
\* '^https?:\/\/(www\.)?<host>\.com\/.+'
WwwCom(host) == Anchored(HttpS \o OptWww \o <<Lit(host)>> \o DotComRest)

\* ------------------------------------------------------- block definitions

Def(blockName, title, patterns) ==
    [name |-> blockName, title |-> title, patterns |-> patterns]

\* export const common = [ ... ]: the arguments of its getEmbedBlockDefinition calls.
Common ==
    << Def("core-embed/twitter", <<"Twitter">>, <<WwwCom("twitter")>>),
       Def("core-embed/youtube", <<"YouTube">>,
           << Anchored(HttpS
                  \o <<Opt(<<Alt(<<Lits(<<"m">>), Lits(<<"www">>)>>), Lit(".")>>)>>
                  \o <<Lit("youtube")>> \o DotComRest),
              Unanchored(Lits(<<"youtu", ".", "be", "/">>) \o <<Plus>>) >>),
       Def("core-embed/facebook", <<"Facebook">>,
           << Anchored(HttpS \o Lits(<<"www", ".", "facebook">>) \o <<Dot>>
                  \o Lits(<<"com", "/">>) \o <<Plus>>) >>),
       Def("core-embed/instagram", <<"Instagram">>,
           << Anchored(HttpS \o OptWww \o <<Lit("instagr")>>
                  \o <<Alt(<<Lits(<<".", "am">>), Lits(<<"am", ".", "com">>)>>)>>
                  \o <<Lit("/"), Plus>>) >>),
       \* no patterns option at all
       Def("core-embed/wordpress", <<"WordPress">>, <<>>),
       Def("core-embed/soundcloud", <<"SoundCloud">>, <<WwwCom("soundcloud")>>),
       Def("core-embed/spotify", <<"Spotify">>,
           << Anchored(HttpS \o <<Alt(<<Lits(<<"open">>), Lits(<<"play">>)>>)>>
                  \o Lits(<<".", "spotify">>) \o DotComRest) >>),
       Def("core-embed/flickr", <<"Flickr">>,
           << WwwCom("flickr"),
              Unanchored(Lits(<<"flic", ".", "kr", "/">>) \o <<Plus>>) >>),
       Def("core-embed/vimeo", <<"Vimeo">>, <<WwwCom("vimeo")>>) >>

\* export const others = [ ... ]
Others ==
    << Def("core-embed/animoto", <<"Animoto">>,
           << Anchored(HttpS \o OptWww
                  \o <<Alt(<<Lits(<<"animoto">>), Lits(<<"video214">>)>>)>>
                  \o DotComRest) >>),
       Def("core-embed/cloudup", <<"Cloudup">>,
           << Anchored(HttpS \o <<Lit("cloudup")>> \o DotComRest) >>),
       Def("core-embed/collegehumor", <<"CollegeHumor">>, <<WwwCom("collegehumor")>>),
       Def("core-embed/dailymotion", <<"Dailymotion">>, <<WwwCom("dailymotion")>>),
       Def("core-embed/funnyordie", <<"Funny", " ", "or", " ", "Die">>,
           << Unanchored(OptWww \o <<Lit("funnyordie")>> \o DotComRest) >>),
       Def("core-embed/hulu", <<"Hulu">>, <<WwwCom("hulu")>>),
       Def("core-embed/imgur", <<"Imgur">>,
           << Anchored(HttpS \o <<Opt(<<Plus, Lit(".")>>)>>
                  \o <<Lit("imgur")>> \o DotComRest) >>),
       Def("core-embed/issuu", <<"Issuu">>, <<WwwCom("issuu")>>),
       Def("core-embed/kickstarter", <<"Kickstarter">>,
           << WwwCom("kickstarter"),
              Anchored(HttpS \o Lits(<<"kck", ".", "st", "/">>) \o <<Plus>>) >>),
       Def("core-embed/meetup-com", <<"Meetup", ".", "com">>,
           << Anchored(HttpS \o OptWww \o <<Lit("meetu")>>
                  \o <<Alt(<<Lits(<<".", "ps">>), Lits(<<"p", ".", "com">>)>>)>>
                  \o <<Lit("/"), Plus>>) >>),
       Def("core-embed/mixcloud", <<"Mixcloud">>, <<WwwCom("mixcloud")>>),
       Def("core-embed/photobucket", <<"Photobucket">>,
           << Anchored(<<Lit("http"), Lit("://"), Opt(<<Lit("g")>>), Star(<<Lit("i")>>)>>
                  \o Lits(<<".", "photobucket">>) \o DotComRest) >>),
       \* the source gives polldaddy the mixcloud expression
       Def("core-embed/polldaddy", <<"Polldaddy">>, <<WwwCom("mixcloud")>>),
       Def("core-embed/reddit", <<"Reddit">>, <<WwwCom("reddit")>>),
       Def("core-embed/reverbnation", <<"ReverbNation">>, <<WwwCom("reverbnation")>>),
       Def("core-embed/screencast", <<"Screencast">>, <<WwwCom("screencast")>>),
       Def("core-embed/scribd", <<"Scribd">>, <<WwwCom("scribd")>>),
       Def("core-embed/slideshare", <<"Slideshare">>,
           << Anchored(HttpS \o <<Opt(<<Plus, Lit(".")>>)>>
                  \o Lits(<<"slideshare", ".", "net", "/">>) \o <<Plus>>) >>),
       Def("core-embed/smugmug", <<"SmugMug">>, <<WwwCom("smugmug")>>),
       Def("core-embed/speaker", <<"Speaker">>, <<WwwCom("speakerdeck")>>),
       Def("core-embed/ted", <<"TED">>,
           << Anchored(HttpS
                  \o <<Opt(<<Alt(<<Lits(<<"www", ".">>), Lits(<<"embed", ".">>)>>)>>)>>
                  \o <<Lit("ted")>> \o DotComRest) >>),
       Def("core-embed/tumblr", <<"Tumblr">>, <<WwwCom("tumblr")>>),
       Def("core-embed/videopress", <<"VideoPress">>,
           << Anchored(HttpS \o <<Lit("videopress")>> \o DotComRest) >>),
       Def("core-embed/wordpress-tv", <<"WordPress", ".", "tv">>,
           << Anchored(HttpS \o Lits(<<"wordpress", ".", "tv", "/">>) \o <<Plus>>) >>) >>

\* The definitions in the order the module evaluates them.
Definitions == Common \o Others

\* ------------------------------------------------------------------ state

VARIABLES
    defs,           \* which list of block definitions the module evaluates
    regPc,          \* how many of them getEmbedBlockDefinition has processed
    blockPatterns,  \* the object blockPatterns: its entries in insertion order
    lookup,         \* the last findBlock call made on the registry and its result
    status,         \* per instance: "free" (not created), "mounted", "unmounted"
    name,           \* per instance: this.props.name
    attributes,     \* per instance: this.props.attributes (url, type, providerNameSlug)
    state,          \* per instance: this.state
    unmounting,     \* per instance: this.unmounting
    callbacks,      \* per instance: the promises its .then handlers wait on, oldest first
    replaced,       \* per instance: the block it handed to this.props.onReplace, if any
    threw,          \* per instance: whether its last doServerSideRender raised an exception
    chain,          \* per instance: the blocks replaced on the way to this one, for its url
    requests,       \* per URL: the wp.apiRequest calls made for it, each with its outcome
    cache,          \* per URL: memize's cache of wpEmbedAPI (0: no entry)
    view            \* the last render() or save() evaluated on its own, and what it returned

registryVars == <<defs, regPc, blockPatterns, lookup>>
instVars == <<status, name, attributes, state, unmounting, callbacks, replaced, threw, chain>>
apiVars == <<requests, cache>>
viewVars == <<view>>
vars == <<defs, regPc, blockPatterns, lookup, status, name, attributes, state,
          unmounting, callbacks, replaced, threw, chain, requests, cache, view>>

None == "none"
Null == <<"#null">>
NoView == [op |-> None]
NoLookup == [url |-> Undefined, found |-> None]

\* ------------------------------------------------------- pattern registry

\* patterns.some( ( pattern ) => url.match( new RegExp( pattern, 'i' ) ) )
matchesPatterns(url, patterns) ==
    \E k \in DOMAIN patterns : RegExpMatch(url, patterns[k])

\* url.match on undefined is a TypeError; some() calls back only when there
\* is a pattern to test.
matchesPatternsThrows(url, patterns) ==
    url = Undefined /\ patterns # <<>>

\* --------------------------------------------------------------- URLs

uTwitter == <<"https", "://", "twitter", ".", "com", "/", "a">>
uTwitterUpper == <<"HTTPS", "://", "WWW", ".", "TWITTER", ".", "COM", "/", "a">>
\* https://twitter.com/youtu.be/x: a twitter URL that youtube's second,
\* unanchored expression also matches.
uOverlap == <<"https", "://", "twitter", ".", "com", "/", "youtu", ".", "be", "/", "x">>
uYoutuBe == <<"https", "://", "youtu", ".", "be", "/", "x">>
uMixcloud == <<"https", "://", "www", ".", "mixcloud", ".", "com", "/", "a">>
uPolldaddy == <<"https", "://", "polldaddy", ".", "com", "/", "a">>
uFacebook == <<"https", "://", "www", ".", "facebook", ".", "com", "/", "a">>
uFacebookDash == <<"https", "://", "www", ".", "facebook", "-", "com", "/", "a">>
uPhotobucket == <<"http", "://", "g", "i", "i", ".", "photobucket", ".", "com", "/", "a">>
uImgurSub == <<"https", "://", "i", ".", "imgur", ".", "com", "/", "a">>
\* a self-hosted WordPress site: no registered expression matches it
uBlog == <<"https", "://", "example", ".", "org", "/", "post">>
\* twitter's expression needs something after the last slash
uTwitterBare == <<"https", "://", "twitter", ".", "com", "/">>
\* the empty string
uEmpty == <<>>
\* foo:bar, a URL without a host component
uNoHost == <<"foo", ":", "bar">>
uFacebookBare == <<"https", "://", "facebook", ".", "com", "/", "a">>
uFacebookUpper == <<"https", "://", "WWW", ".", "Facebook", ".", "COM", "/", "a">>

LookupUrls ==
    { uTwitter, uTwitterUpper, uOverlap, uYoutuBe, uMixcloud, uPolldaddy, uFacebook,
      uFacebookDash, uPhotobucket, uImgurSub, uBlog, uTwitterBare, uEmpty }

\* The URLs typed into, or saved with, the blocks of this model.
InstUrls == {uOverlap, uBlog}

AllUrls == LookupUrls \cup InstUrls

Reverse(s) == [k \in 1..Len(s) |-> s[Len(s) + 1 - k]]

TwitterDef == Definitions[1]
YoutubeDef == Definitions[2]
WordpressDef == Definitions[5]

\* The lists of definitions a module may evaluate: the module's own list, the
\* same list in the opposite order, and short lists with overlapping
\* expressions in both orders.
DefinitionLists ==
    [id \in {"module", "reversed", "twitter-youtube", "youtube-twitter",
             "wordpress-youtube-twitter", "empty"} |->
        CASE id = "module" -> Definitions
          [] id = "reversed" -> Reverse(Definitions)
          [] id = "twitter-youtube" -> <<TwitterDef, YoutubeDef>>
          [] id = "youtube-twitter" -> <<YoutubeDef, TwitterDef>>
          [] id = "wordpress-youtube-twitter" -> <<WordpressDef, YoutubeDef, TwitterDef>>
          [] id = "empty" -> <<>>]

\* blockPatterns[ options.name ] = options.patterns: a new key is appended, an
\* existing key keeps its place and takes the new value. The value is a
\* reference to the definition's patterns array: the definition's index.
SetKey(registry, key, ref) ==
    IF \E k \in DOMAIN registry : registry[k].name = key
    THEN [k \in DOMAIN registry |->
            IF registry[k].name = key
            THEN [name |-> key, patterns |-> ref] ELSE registry[k]]
    ELSE Append(registry, [name |-> key, patterns |-> ref])

\* The registry after getEmbedBlockDefinition( options ), options being
\* definition n of the list ds.
getEmbedBlockDefinition(registry, ds, n) ==
    IF Len(ds[n].patterns) > 0
    THEN SetKey(registry, ds[n].name, n)
    ELSE registry

RECURSIVE Registered(_, _)
\* The registry once the first n definitions of ds have been evaluated.
Registered(ds, n) ==
    IF n = 0 THEN <<>>
    ELSE getEmbedBlockDefinition(Registered(ds, n - 1), ds, n)

RECURSIVE ScanFromLast(_, _, _, _)
\* Mutant: the scan goes on after a match, so the last matching key wins.
ScanFromLast(url, registry, ds, k) ==
    IF k > Len(registry) THEN "core/embed"
    ELSE LET later == ScanFromLast(url, registry, ds, k + 1)
         IN IF later # "core/embed" THEN later
            ELSE IF matchesPatterns(url, ds[registry[k].patterns].patterns)
            THEN registry[k].name
            ELSE "core/embed"

RECURSIVE ScanFrom(_, _, _, _)
\* for ( const blockName in blockPatterns ): own string keys, in insertion order.
ScanFrom(url, registry, ds, k) ==
    IF k > Len(registry) THEN "core/embed"
    ELSE IF matchesPatterns(url, ds[registry[k].patterns].patterns) THEN registry[k].name
    ELSE ScanFrom(url, registry, ds, k + 1)

\* The registry the module's own definitions leave behind, and the scan's
\* result on it for each URL of the model: evaluated once.
ModuleRegistry == Registered(Definitions, Len(Definitions))
ModuleScan == [url \in AllUrls |-> ScanFrom(url, ModuleRegistry, Definitions, 1)]

findBlock(url) ==
    IF defs = "module" /\ blockPatterns = ModuleRegistry /\ url \in AllUrls
    THEN ModuleScan[url]
    ELSE ScanFrom(url, blockPatterns, DefinitionLists[defs], 1)

findBlockThrows(url) ==
    \E k \in DOMAIN blockPatterns :
        matchesPatternsThrows(url, DefinitionLists[defs][blockPatterns[k].patterns].patterns)

\* The block names of the instances of this model.
InstNames == {"core/embed", "core-embed/twitter", "core-embed/youtube", "core-embed/wordpress"}

\* `patterns` as the edit class of block `name` closes over it: the option
\* handed on by getEmbedBlockDefinition, [] by default (and for core/embed).
PatternsOf(blockName) ==
    IF \E k \in DOMAIN Definitions : Definitions[k].name = blockName
    THEN Definitions[CHOOSE k \in DOMAIN Definitions : Definitions[k].name = blockName].patterns
    ELSE <<>>

\* Whether the url matches the block's own patterns, for each block name and
\* URL of the model: evaluated once.
OwnMatch ==
    [blockName \in InstNames, url \in InstUrls |-> matchesPatterns(url, PatternsOf(blockName))]

matchesOwnPatterns(blockName, url) ==
    IF blockName \in InstNames /\ url \in InstUrls
    THEN OwnMatch[blockName, url]
    ELSE matchesPatterns(url, PatternsOf(blockName))

\* ------------------------------------------------------ oEmbed responses

\* Markup is a sequence of fragments; '' is the empty sequence.
WpMarker == "class=\"wp-embedded-content\" data-secret"
PlainHtml == <<"<iframe src=\"player\"></iframe>">>
WpHtml == <<"<blockquote ", WpMarker, "=\"s\"></blockquote>">>

Obj(html, result, type, providerName, thumbnail, title) ==
    [html |-> html, result |-> result, type |-> type, provider_name |-> providerName,
     thumbnail_url |-> thumbnail, title |-> title]

\* The JSON bodies the proxy answers with in this model.
Responses ==
    { \* the markup in `result`, no type; a provider name
      Obj(Undefined, PlainHtml, Undefined, <<"YouTube">>, Undefined, Undefined),
      \* a WordPress embed, with an empty provider name
      Obj(WpHtml, Undefined, <<"rich">>, <<>>, Undefined, Undefined),
      \* a photo without markup and without provider name
      Obj(Undefined, Undefined, <<"photo">>, Undefined, <<"thumb.jpg">>, <<"A", " ", "photo">>),
      \* a link: nothing to render
      Obj(Undefined, Undefined, <<"link">>, <<"Example">>, Undefined, Undefined),
      \* a photo whose markup a plugin put in `result`
      Obj(Undefined, PlainHtml, <<"photo">>, <<"Flickr">>, <<"thumb.jpg">>, <<"A", " ", "photo">>) }

NoObj == Obj(Undefined, Undefined, Undefined, Undefined, Undefined, Undefined)
Pending == [st |-> "pending", obj |-> NoObj]
Rejected == [st |-> "rejected", obj |-> NoObj]
Resolved(obj) == [st |-> "resolved", obj |-> obj]
Outcomes == {Rejected} \cup {Resolved(obj) : obj \in Responses}

\* ---------------------------------------------------- the edit component

Inst == 1..MaxInst

\* A JavaScript value used as a condition.
Truthy(v) == v # Undefined /\ v # <<>>

\* createBlock( blockName, { url } )
createBlock(blockName, url) == [name |-> blockName, url |-> url]
NoBlock == [name |-> None, url |-> Undefined]

\* this.state as the constructor sets it (providerNameSlug is not among its keys yet).
InitialState ==
    [html |-> <<>>, type |-> <<>>, error |-> FALSE, fetching |-> FALSE,
     providerName |-> <<>>, providerNameSlug |-> Undefined]

\* The attributes of a new block: caption has the default [], the others none.
InitialAttributes(url) ==
    [url |-> url, caption |-> <<>>, align |-> Undefined, type |-> Undefined,
     providerNameSlug |-> Undefined]

\* title, as getEmbedBlockSettings receives it for block `blockName`.
TitleOf(blockName) ==
    IF \E k \in DOMAIN Definitions : Definitions[k].name = blockName
    THEN Definitions[CHOOSE k \in DOMAIN Definitions : Definitions[k].name = blockName].title
    ELSE <<"Embed">>

\* lodash toLower: '' for undefined, else every letter in lower case.
toLower(v) == IF v = Undefined THEN <<>> ELSE [k \in DOMAIN v |-> ToLower(v[k])]

WordSeparators == {" ", ".", "-", "_", "/"}

RECURSIVE JoinWords(_, _)
\* The words of ws (separators left out), joined by sep.
JoinWords(ws, sep) ==
    IF ws = <<>> THEN <<>>
    ELSE IF Head(ws) \in WordSeparators THEN JoinWords(Tail(ws), sep)
    ELSE LET rest == JoinWords(Tail(ws), sep)
         IN IF rest = <<>> THEN <<Head(ws)>> ELSE <<Head(ws), sep>> \o rest

\* lodash kebabCase of a lower-case string: its words joined by '-'.
kebabCase(v) == JoinWords(v, "-")

\* lodash includes( html, marker ): false for undefined.
includes(html, marker) ==
    html # Undefined /\ \E k \in DOMAIN html : html[k] = marker

\* Mutant: the img element without its src.
getPhotoHtmlNoSrc(photo) ==
    <<"<p><img alt=\"">> \o (IF photo.title = Undefined THEN <<>> ELSE photo.title)
        \o <<"\" width=\"100%\"/></p>">>

\* getPhotoHtml( photo ): renderToString of <p><img src alt width="100%" /></p>.
getPhotoHtml(photo) ==
    <<"<p><img src=\"">> \o (IF photo.thumbnail_url = Undefined THEN <<>> ELSE photo.thumbnail_url)
        \o <<"\" alt=\"">> \o (IF photo.title = Undefined THEN <<>> ELSE photo.title)
        \o <<"\" width=\"100%\"/></p>">>

\* Mutant: render() without its `if ( fetching )` return.
RenderViewNoLoading(st) ==
    IF ~Truthy(st.html) THEN "form" ELSE "content"

\* Mutant: the form is rendered whenever there is no fetch, markup or not.
RenderViewFormWhenIdle(st) ==
    IF st.fetching THEN "loading" ELSE "form"

\* render(): which of its three returns is taken.
RenderView(st) ==
    IF st.fetching THEN "loading"
    ELSE IF ~Truthy(st.html) THEN "form"
    ELSE "content"

\* These embeds do not work in sandboxes.
HOSTS_NO_PREVIEWS == {<<"facebook", ".", "com">>}

\* The tokens of s before the first "/" at or after position k.
RECURSIVE UpToSlash(_, _)
UpToSlash(s, k) ==
    IF k > Len(s) \/ s[k] = "/" THEN <<>> ELSE <<s[k]>> \o UpToSlash(s, k + 1)

\* parse( url ).host: the authority after '://', in lower case; null for a
\* string without one.
Host(url) ==
    IF Len(url) >= 2 /\ url[2] = "://"
    THEN [k \in DOMAIN UpToSlash(url, 3) |-> ToLower(UpToSlash(url, 3)[k])]
    ELSE Null

\* host.replace( /^www\./, '' )
StripWww(host) ==
    IF Len(host) >= 2 /\ host[1] = "www" /\ host[2] = "."
    THEN SubSeq(host, 3, Len(host))
    ELSE host

\* Mutant: the type is looked at before the host.
renderRawFirst(st, attrs) ==
    IF RenderView(st) = "loading" THEN [kind |-> "loading", error |-> FALSE]
    ELSE IF RenderView(st) = "form" THEN [kind |-> "form", error |-> st.error]
    ELSE IF attrs.url = Undefined \/ Host(attrs.url) = Null
    THEN [kind |-> "TypeError", error |-> FALSE]
    ELSE IF <<"wp-embed">> = st.type THEN [kind |-> "raw", error |-> FALSE]
    ELSE IF StripWww(Host(attrs.url)) \in HOSTS_NO_PREVIEWS
    THEN [kind |-> "placeholder", error |-> FALSE]
    ELSE [kind |-> "sandbox", error |-> FALSE]

\* render(), lines 190-279: what it returns for this.state = st and
\* this.props.attributes = attrs, and whether the error message is in it.
\* parse( undefined ) and null.replace( ... ) raise a TypeError.
render(st, attrs) ==
    IF RenderView(st) = "loading" THEN [kind |-> "loading", error |-> FALSE]
    ELSE IF RenderView(st) = "form" THEN [kind |-> "form", error |-> st.error]
    ELSE IF attrs.url = Undefined \/ Host(attrs.url) = Null
    THEN [kind |-> "TypeError", error |-> FALSE]
    ELSE IF StripWww(Host(attrs.url)) \in HOSTS_NO_PREVIEWS
    THEN [kind |-> "placeholder", error |-> FALSE]
    ELSE IF <<"wp-embed">> = st.type THEN [kind |-> "raw", error |-> FALSE]
    ELSE [kind |-> "sandbox", error |-> FALSE]

\* classnames( 'wp-block-embed', { ... } ): the keys whose value is truthy,
\* in the order of the object literal.
EmbedClassName(attrs) ==
    <<<<"wp-block-embed">>>>
        \o (IF Truthy(attrs.align) THEN <<<<"align">> \o attrs.align>> ELSE <<>>)
        \o (IF Truthy(attrs.type) THEN <<<<"is-type-">> \o attrs.type>> ELSE <<>>)
        \o (IF Truthy(attrs.providerNameSlug)
            THEN <<<<"is-provider-">> \o attrs.providerNameSlug>> ELSE <<>>)

\* Mutant: save without its `if ( ! url ) return null`.
saveWithoutUrlGuard(attrs) ==
    [kind |-> "figure",
     className |-> EmbedClassName(attrs),
     children |-> <<"\n">> \o (IF attrs.url = Undefined THEN <<"undefined">> ELSE attrs.url)
                      \o <<"\n">>,
     figcaption |-> IF attrs.caption # Undefined /\ Len(attrs.caption) > 0
                    THEN attrs.caption ELSE Null]

\* save( { attributes } ), lines 282-301.
save(attrs) ==
    IF ~Truthy(attrs.url) THEN [kind |-> "null"]
    ELSE [kind |-> "figure",
          className |-> EmbedClassName(attrs),
          children |-> <<"\n">> \o attrs.url \o <<"\n">>,
          figcaption |-> IF attrs.caption # Undefined /\ Len(attrs.caption) > 0
                         THEN attrs.caption ELSE Null]

\* doServerSideRender, lines 137-148: an exception is raised (url is undefined
\* where a pattern is to be tested).
EntryThrows(blockName, url) ==
    \/ matchesPatternsThrows(url, PatternsOf(blockName))
    \/ findBlockThrows(url)

\* Mutant: the generic block, not the WordPress block, is the one exempted.
EntryReplacesUnlessGeneric(blockName, url) ==
    /\ ~EntryThrows(blockName, url)
    /\ ~matchesOwnPatterns(blockName, url)
    /\ "core/embed" # blockName
    /\ "core/embed" # findBlock(url)
    /\ blockName # findBlock(url)

\* Mutant: the WordPress block is not exempted.
EntryReplacesAnyBlock(blockName, url) ==
    /\ ~EntryThrows(blockName, url)
    /\ ~matchesOwnPatterns(blockName, url)
    /\ "core/embed" # findBlock(url)
    /\ blockName # findBlock(url)

\* doServerSideRender, lines 137-148: the block hands itself over to the
\* block findBlock names, and returns.
EntryReplaces(blockName, url) ==
    /\ ~EntryThrows(blockName, url)
    /\ ~matchesOwnPatterns(blockName, url)
    /\ "core-embed/wordpress" # blockName
    /\ "core/embed" # findBlock(url)
    /\ blockName # findBlock(url)

\* Mutant: no memoization, every call goes to the network.
MemoNever(url) == FALSE

\* Mutant: a promise that was rejected is dropped from the cache.
MemoHitUnlessRejected(url) ==
    cache[url] # 0 /\ requests[url][cache[url]] # Rejected

\* memize: whether the cache holds the promise of an earlier call with this argument.
MemoHit(url) == cache[url] # 0

\* wpEmbedAPI( url ): the promise it returns, as (url, number of the request),
\* and whether it came out of the cache.
wpEmbedAPI(url) ==
    [url |-> url, k |-> IF MemoHit(url) THEN cache[url] ELSE Len(requests[url]) + 1,
     hit |-> MemoHit(url)]

SamePromise(p, q) == p.url = q.url /\ p.k = q.k

\* The effect of wpEmbedAPI( url ) on the request log and on memize's cache.
CallApi(url) ==
    IF MemoHit(url)
    THEN UNCHANGED <<requests, cache>>
    ELSE /\ requests' = [requests EXCEPT ![url] = Append(@, Pending)]
         /\ cache' = [cache EXCEPT ![url] = Len(requests[url]) + 1]

\* Mutant: setState( { error: false, fetching: true } ) moved to the top of
\* the function, before the search for a more suitable block.
doServerSideRenderSetStateFirst(i, blockName, attrs, st) ==
    IF EntryThrows(blockName, attrs.url)
    THEN /\ threw' = [threw EXCEPT ![i] = TRUE]
         /\ state' = [state EXCEPT ![i] = st]
         /\ replaced' = [replaced EXCEPT ![i] = NoBlock]
         /\ UNCHANGED <<callbacks, requests, cache>>
    ELSE IF EntryReplaces(blockName, attrs.url)
    THEN /\ replaced' = [replaced EXCEPT ![i] = createBlock(findBlock(attrs.url), attrs.url)]
         /\ state' = [state EXCEPT ![i] = [st EXCEPT !.error = FALSE, !.fetching = TRUE]]
         /\ threw' = [threw EXCEPT ![i] = FALSE]
         /\ UNCHANGED <<callbacks, requests, cache>>
    ELSE /\ state' = [state EXCEPT ![i] = [st EXCEPT !.error = FALSE, !.fetching = TRUE]]
         /\ callbacks' = [callbacks EXCEPT ![i] = Append(@, wpEmbedAPI(attrs.url))]
         /\ CallApi(attrs.url)
         /\ replaced' = [replaced EXCEPT ![i] = NoBlock]
         /\ threw' = [threw EXCEPT ![i] = FALSE]

\* doServerSideRender( event ) of instance i, whose name, attributes and state
\* (as left by the caller) are given: lines 128-152. The instance has handed
\* no block to onReplace when it gets here.
doServerSideRender(i, blockName, attrs, st) ==
    IF EntryThrows(blockName, attrs.url)
    THEN /\ threw' = [threw EXCEPT ![i] = TRUE]
         /\ state' = [state EXCEPT ![i] = st]
         /\ replaced' = [replaced EXCEPT ![i] = NoBlock]
         /\ UNCHANGED <<callbacks, requests, cache>>
    ELSE IF EntryReplaces(blockName, attrs.url)
    THEN /\ replaced' = [replaced EXCEPT ![i] = createBlock(findBlock(attrs.url), attrs.url)]
         /\ state' = [state EXCEPT ![i] = st]
         /\ threw' = [threw EXCEPT ![i] = FALSE]
         /\ UNCHANGED <<callbacks, requests, cache>>
    ELSE /\ state' = [state EXCEPT ![i] = [st EXCEPT !.error = FALSE, !.fetching = TRUE]]
         /\ callbacks' = [callbacks EXCEPT ![i] = Append(@, wpEmbedAPI(attrs.url))]
         /\ CallApi(attrs.url)
         /\ replaced' = [replaced EXCEPT ![i] = NoBlock]
         /\ threw' = [threw EXCEPT ![i] = FALSE]

\* The editor creates block i with the given name and url attribute: the
\* constructor, then componentWillMount.
Insert(i, blockName, url) ==
    /\ regPc = Len(DefinitionLists[defs])
    /\ status[i] = "free"
    /\ \A j \in Inst : j < i => status[j] # "free"
    /\ status' = [status EXCEPT ![i] = "mounted"]
    /\ name' = [name EXCEPT ![i] = blockName]
    /\ attributes' = [attributes EXCEPT ![i] = InitialAttributes(url)]
    /\ IF Truthy(url)
       THEN doServerSideRender(i, blockName, InitialAttributes(url),
                               [InitialState EXCEPT !.fetching = TRUE])
       ELSE /\ state' = [state EXCEPT ![i] = InitialState]
            /\ UNCHANGED <<callbacks, replaced, threw, requests, cache>>
    /\ chain' = [chain EXCEPT ![i] = <<>>]
    /\ UNCHANGED <<unmounting>>
    /\ UNCHANGED registryVars
    /\ UNCHANGED viewVars

\* The longest chain of replacements the editor is followed through.
MaxChain == 3

\* The editor carries out this.props.onReplace( block ) of instance i: the
\* instance is unmounted and the new block takes its place in the post, with
\* the constructor and componentWillMount of its edit component.
Replace(i) ==
    /\ status[i] = "mounted"
    /\ replaced[i] # NoBlock
    /\ callbacks[i] = <<>>
    /\ Len(chain[i]) < MaxChain
    /\ name' = [name EXCEPT ![i] = replaced[i].name]
    /\ attributes' = [attributes EXCEPT ![i] = InitialAttributes(replaced[i].url)]
    /\ chain' = [chain EXCEPT ![i] = Append(@, name[i])]
    /\ IF Truthy(replaced[i].url)
       THEN doServerSideRender(i, replaced[i].name, InitialAttributes(replaced[i].url),
                               [InitialState EXCEPT !.fetching = TRUE])
       ELSE /\ state' = [state EXCEPT ![i] = InitialState]
            /\ replaced' = [replaced EXCEPT ![i] = NoBlock]
            /\ threw' = [threw EXCEPT ![i] = FALSE]
            /\ UNCHANGED <<callbacks, requests, cache>>
    /\ UNCHANGED <<status, unmounting>>
    /\ UNCHANGED registryVars
    /\ UNCHANGED viewVars

\* Whether instance i shows the form and can receive its events.
FormShown(i) ==
    /\ status[i] = "mounted"
    /\ replaced[i] = NoBlock
    /\ RenderView(state[i]) = "form"

\* onChange of the input: setAttributes( { url: event.target.value } ). With
\* another url the block is the start of a new chain of replacements.
ChangeUrl(i, url) ==
    /\ FormShown(i)
    /\ attributes[i].url # url
    /\ attributes' = [attributes EXCEPT ![i].url = url]
    /\ chain' = [chain EXCEPT ![i] = <<>>]
    /\ UNCHANGED <<status, name, state, unmounting, callbacks, replaced, threw>>
    /\ UNCHANGED apiVars
    /\ UNCHANGED registryVars
    /\ UNCHANGED viewVars

\* onSubmit of the form: doServerSideRender( event ).
Submit(i) ==
    /\ FormShown(i)
    /\ doServerSideRender(i, name[i], attributes[i], state[i])
    /\ UNCHANGED <<status, name, attributes, unmounting, chain>>
    /\ UNCHANGED registryVars
    /\ UNCHANGED viewVars

\* componentWillUnmount: the editor removes (or replaces) block i. An instance
\* no promise handler refers to is gone with that; one that has handlers
\* waiting stays until they have run.
Unmount(i) ==
    /\ status[i] = "mounted"
    /\ IF callbacks[i] = <<>>
       THEN /\ status' = [status EXCEPT ![i] = "free"]
            /\ name' = [name EXCEPT ![i] = None]
            /\ attributes' = [attributes EXCEPT ![i] = InitialAttributes(Undefined)]
            /\ state' = [state EXCEPT ![i] = InitialState]
            /\ replaced' = [replaced EXCEPT ![i] = NoBlock]
            /\ threw' = [threw EXCEPT ![i] = FALSE]
            /\ chain' = [chain EXCEPT ![i] = <<>>]
            /\ UNCHANGED <<unmounting, callbacks>>
       ELSE /\ status' = [status EXCEPT ![i] = "unmounted"]
            /\ unmounting' = [unmounting EXCEPT ![i] = TRUE]
            /\ UNCHANGED <<name, attributes, state, callbacks, replaced, threw, chain>>
    /\ UNCHANGED apiVars
    /\ UNCHANGED registryVars
    /\ UNCHANGED viewVars

\* An unmounted instance whose handlers have all run is collected.
Release(i) ==
    /\ status[i] = "unmounted"
    /\ callbacks[i] = <<>>
    /\ status' = [status EXCEPT ![i] = "free"]
    /\ name' = [name EXCEPT ![i] = None]
    /\ attributes' = [attributes EXCEPT ![i] = InitialAttributes(Undefined)]
    /\ state' = [state EXCEPT ![i] = InitialState]
    /\ unmounting' = [unmounting EXCEPT ![i] = FALSE]
    /\ replaced' = [replaced EXCEPT ![i] = NoBlock]
    /\ threw' = [threw EXCEPT ![i] = FALSE]
    /\ chain' = [chain EXCEPT ![i] = <<>>]
    /\ UNCHANGED <<callbacks>>
    /\ UNCHANGED apiVars
    /\ UNCHANGED registryVars
    /\ UNCHANGED viewVars

\* wp.apiRequest's promise for request k of `url` settles.
Settle(url, k, outcome) ==
    /\ requests[url][k] = Pending
    /\ requests' = [requests EXCEPT ![url][k] = outcome]
    /\ UNCHANGED <<cache>>
    /\ UNCHANGED instVars
    /\ UNCHANGED registryVars
    /\ UNCHANGED viewVars

RemoveAt(s, c) == [k \in 1..(Len(s) - 1) |-> IF k < c THEN s[k] ELSE s[k + 1]]

\* const html = obj.html ? obj.html : obj.result
ResponseHtml(obj) == IF Truthy(obj.html) THEN obj.html ELSE obj.result

\* Mutant: the type is not forced to 'wp-embed'.
ResponseTypeAsSent(obj) ==
    IF obj.type = Undefined THEN <<"rich">> ELSE obj.type

\* Mutant: an absent type is not defaulted.
ResponseTypeNoDefault(obj) ==
    IF includes(ResponseHtml(obj), WpMarker) THEN <<"wp-embed">> ELSE obj.type

\* let { type = 'rich' } = obj, then 'wp-embed' when the marker is in the markup
ResponseType(obj) ==
    IF includes(ResponseHtml(obj), WpMarker) THEN <<"wp-embed">>
    ELSE IF obj.type = Undefined THEN <<"rich">> ELSE obj.type

\* kebabCase( toLower( '' !== providerName ? providerName : title ) )
ProviderNameSlug(obj, title) ==
    kebabCase(toLower(IF <<>> # obj.provider_name THEN obj.provider_name ELSE title))

\* The success handler checks this.unmounting before it does anything.
SuccessDiscarded(i) == unmounting[i]

\* The rejection handler has no such check.
FailureDiscarded(i) == FALSE

\* Mutant: the handler does not look at the block's name before it replaces.
OnSuccessReplacesAnyBlock(i, url, obj) ==
    IF SuccessDiscarded(i)
    THEN UNCHANGED <<state, attributes, replaced>>
    ELSE IF includes(ResponseHtml(obj), WpMarker)
    THEN /\ replaced' = [replaced EXCEPT ![i] = createBlock("core-embed/wordpress", url)]
         /\ UNCHANGED <<state, attributes>>
    ELSE IF Truthy(ResponseHtml(obj)) \/ <<"photo">> = ResponseType(obj)
    THEN /\ state' = [state EXCEPT ![i] =
                [@ EXCEPT !.html = IF Truthy(ResponseHtml(obj)) THEN ResponseHtml(obj)
                                   ELSE getPhotoHtml(obj),
                          !.type = ResponseType(obj),
                          !.providerNameSlug = ProviderNameSlug(obj, TitleOf(name[i])),
                          !.fetching = FALSE]]
         /\ attributes' = [attributes EXCEPT ![i] =
                [@ EXCEPT !.type = ResponseType(obj),
                          !.providerNameSlug = ProviderNameSlug(obj, TitleOf(name[i]))]]
         /\ UNCHANGED <<replaced>>
    ELSE /\ state' = [state EXCEPT ![i].fetching = FALSE]
         /\ UNCHANGED <<attributes, replaced>>

\* Mutant: setAttributes( { type, providerNameSlug } ) also when there is no
\* markup to render.
OnSuccessAlwaysSetsAttributes(i, url, obj) ==
    LET html == ResponseHtml(obj)
        type == ResponseType(obj)
        slug == ProviderNameSlug(obj, TitleOf(name[i]))
    IN IF SuccessDiscarded(i)
       THEN UNCHANGED <<state, attributes, replaced>>
       ELSE IF includes(html, WpMarker) /\ name[i] # "core-embed/wordpress"
       THEN /\ replaced' = [replaced EXCEPT ![i] = createBlock("core-embed/wordpress", url)]
            /\ UNCHANGED <<state, attributes>>
       ELSE IF Truthy(html)
       THEN /\ state' = [state EXCEPT ![i] =
                   [@ EXCEPT !.html = html, !.type = type, !.providerNameSlug = slug,
                             !.fetching = FALSE]]
            /\ attributes' = [attributes EXCEPT ![i] =
                   [@ EXCEPT !.type = type, !.providerNameSlug = slug]]
            /\ UNCHANGED <<replaced>>
       ELSE IF <<"photo">> = type
       THEN /\ state' = [state EXCEPT ![i] =
                   [@ EXCEPT !.html = getPhotoHtml(obj), !.type = type,
                             !.providerNameSlug = slug, !.fetching = FALSE]]
            /\ attributes' = [attributes EXCEPT ![i] =
                   [@ EXCEPT !.type = type, !.providerNameSlug = slug]]
            /\ UNCHANGED <<replaced>>
       ELSE /\ state' = [state EXCEPT ![i].fetching = FALSE]
            /\ attributes' = [attributes EXCEPT ![i] =
                   [@ EXCEPT !.type = type, !.providerNameSlug = slug]]
            /\ UNCHANGED <<replaced>>

\* The fulfilment handler of lines 153-183, for the fetch of `url`, with obj.
OnSuccess(i, url, obj) ==
    LET html == ResponseHtml(obj)
        type == ResponseType(obj)
        slug == ProviderNameSlug(obj, TitleOf(name[i]))
    IN IF SuccessDiscarded(i)
       THEN UNCHANGED <<state, attributes, replaced>>
       ELSE IF includes(html, WpMarker) /\ name[i] # "core-embed/wordpress"
       THEN /\ replaced' = [replaced EXCEPT ![i] = createBlock("core-embed/wordpress", url)]
            /\ UNCHANGED <<state, attributes>>
       ELSE IF Truthy(html)
       THEN /\ state' = [state EXCEPT ![i] =
                   [@ EXCEPT !.html = html, !.type = type, !.providerNameSlug = slug,
                             !.fetching = FALSE]]
            /\ attributes' = [attributes EXCEPT ![i] =
                   [@ EXCEPT !.type = type, !.providerNameSlug = slug]]
            /\ UNCHANGED <<replaced>>
       ELSE IF <<"photo">> = type
       THEN /\ state' = [state EXCEPT ![i] =
                   [@ EXCEPT !.html = getPhotoHtml(obj), !.type = type,
                             !.providerNameSlug = slug, !.fetching = FALSE]]
            /\ attributes' = [attributes EXCEPT ![i] =
                   [@ EXCEPT !.type = type, !.providerNameSlug = slug]]
            /\ UNCHANGED <<replaced>>
       ELSE /\ state' = [state EXCEPT ![i].fetching = FALSE]
            /\ UNCHANGED <<attributes, replaced>>

\* Mutant: the rejection handler sets the error and leaves fetching as it is.
OnFailureKeepsFetching(i) ==
    /\ state' = [state EXCEPT ![i].error = TRUE]
    /\ UNCHANGED <<attributes, replaced>>

\* The rejection handler of lines 184-186.
OnFailure(i) ==
    IF FailureDiscarded(i)
    THEN UNCHANGED <<state, attributes, replaced>>
    ELSE /\ state' = [state EXCEPT ![i] = [@ EXCEPT !.fetching = FALSE, !.error = TRUE]]
         /\ UNCHANGED <<attributes, replaced>>

\* The promise that callback c of instance i waits on has settled, and the
\* handlers attached to it earlier have run: its handler runs.
Then(i, c) ==
    /\ \A b \in 1..(c - 1) : ~SamePromise(callbacks[i][b], callbacks[i][c])
    /\ LET p == callbacks[i][c]
           outcome == requests[p.url][p.k]
       IN /\ outcome # Pending
          /\ IF outcome.st = "resolved"
             THEN OnSuccess(i, p.url, outcome.obj)
             ELSE OnFailure(i)
    /\ callbacks' = [callbacks EXCEPT ![i] = RemoveAt(@, c)]
    /\ UNCHANGED <<status, name, unmounting, threw, chain>>
    /\ UNCHANGED apiVars
    /\ UNCHANGED registryVars
    /\ UNCHANGED viewVars

InitInstances ==
    /\ status = [i \in Inst |-> "free"]
    /\ name = [i \in Inst |-> None]
    /\ attributes = [i \in Inst |-> InitialAttributes(Undefined)]
    /\ state = [i \in Inst |-> InitialState]
    /\ unmounting = [i \in Inst |-> FALSE]
    /\ callbacks = [i \in Inst |-> <<>>]
    /\ replaced = [i \in Inst |-> NoBlock]
    /\ threw = [i \in Inst |-> FALSE]
    /\ chain = [i \in Inst |-> <<>>]
    /\ requests = [u \in InstUrls |-> <<>>]
    /\ cache = [u \in InstUrls |-> 0]
    /\ view = NoView

\* The module has been evaluated; no block exists yet.
Init ==
    /\ defs = "module"
    /\ regPc = Len(Definitions)
    /\ blockPatterns = ModuleRegistry
    /\ lookup = NoLookup
    /\ InitInstances

Next ==
    \/ \E i \in Inst, blockName \in InstNames, url \in InstUrls \cup {Undefined} :
          Insert(i, blockName, url)
    \/ \E i \in Inst, url \in InstUrls : ChangeUrl(i, url)
    \/ \E i \in Inst : Submit(i)
    \/ \E i \in Inst : Replace(i)
    \/ \E i \in Inst : Unmount(i)
    \/ \E i \in Inst : Release(i)
    \/ \E url \in InstUrls, outcome \in Outcomes :
          \E k \in DOMAIN requests[url] : Settle(url, k, outcome)
    \/ \E i \in Inst : \E c \in DOMAIN callbacks[i] : Then(i, c)

Spec == Init /\ [][Next]_vars

\* ----------------------------------------------- the registry on its own

InitRegistry ==
    /\ defs \in DOMAIN DefinitionLists
    /\ regPc = 0
    /\ blockPatterns = <<>>
    /\ lookup = NoLookup
    /\ InitInstances

\* One getEmbedBlockDefinition call of the module's top level.
Register ==
    /\ regPc < Len(DefinitionLists[defs])
    /\ regPc' = regPc + 1
    /\ blockPatterns' = getEmbedBlockDefinition(blockPatterns, DefinitionLists[defs], regPc + 1)
    /\ UNCHANGED <<defs, lookup>>
    /\ UNCHANGED instVars
    /\ UNCHANGED apiVars
    /\ UNCHANGED viewVars

\* findBlock( url ) on a string, once the module has been evaluated.
Lookup(url) ==
    /\ regPc = Len(DefinitionLists[defs])
    /\ lookup' = [url |-> url, found |-> findBlock(url)]
    /\ UNCHANGED <<defs, regPc, blockPatterns>>
    /\ UNCHANGED instVars
    /\ UNCHANGED apiVars
    /\ UNCHANGED viewVars

NextRegistry ==
    \/ Register
    \/ \E url \in LookupUrls : Lookup(url)

SpecRegistry == InitRegistry /\ [][NextRegistry]_vars

\* ------------------------------------------ render and save on their own

\* this.state records render() is evaluated on.
ViewStates ==
    [html : {<<>>, PlainHtml, WpHtml},
     type : {<<>>, <<"rich">>, <<"video">>, <<"wp-embed">>},
     error : BOOLEAN, fetching : BOOLEAN,
     providerName : {<<>>}, providerNameSlug : {Undefined}]

ViewUrls == {uEmpty, uBlog, uFacebook, uFacebookBare, uFacebookUpper, uFacebookDash, uNoHost}

\* Attribute records save() is evaluated on.
ViewAttributes ==
    [url : {Undefined, uEmpty, uBlog},
     caption : {<<>>, <<"a caption">>},
     align : {Undefined, <<>>, <<"wide">>},
     type : {Undefined, <<>>, <<"rich">>},
     providerNameSlug : {Undefined, <<>>, <<"twitter">>}]

\* render() of an instance in state st whose url attribute is url. Markup is
\* only ever set after a fetch, and a fetch needs a url that is a string.
Render(st, url) ==
    /\ Truthy(st.html) => url # Undefined
    /\ view' = [op |-> "render", state |-> st, attributes |-> InitialAttributes(url),
                out |-> render(st, InitialAttributes(url))]
    /\ UNCHANGED registryVars
    /\ UNCHANGED instVars
    /\ UNCHANGED apiVars

\* save( { attributes } ) of a block with these attributes.
Save(attrs) ==
    /\ view' = [op |-> "save", state |-> InitialState, attributes |-> attrs,
                out |-> save(attrs)]
    /\ UNCHANGED registryVars
    /\ UNCHANGED instVars
    /\ UNCHANGED apiVars

NextView ==
    \/ \E st \in ViewStates, url \in ViewUrls \cup {Undefined} : Render(st, url)
    \/ \E attrs \in ViewAttributes : Save(attrs)

SpecView == Init /\ [][NextView]_vars


\* ------------------------------------------------------------- the claims

\* What a step did to instance i.
Issued(i) == Len(callbacks'[i]) > Len(callbacks[i])
HandlerRan(i) == Len(callbacks'[i]) < Len(callbacks[i])
\* The step constructed the block of slot i: inserted, or put in the place of
\* the block that handed itself over.
Created(i) ==
    /\ status'[i] = "mounted"
    /\ status[i] = "free" \/ Len(chain'[i]) > Len(chain[i])
EmittedAtEntry(i) ==
    /\ replaced'[i] # NoBlock
    /\ replaced'[i] # replaced[i] \/ Created(i)
    /\ ~HandlerRan(i)
Raised(i) == threw'[i] /\ ~threw[i]
MountEntry(i) == Created(i) /\ Truthy(attributes'[i].url)
\* The step took instance i into doServerSideRender.
Entered(i) == MountEntry(i) \/ Issued(i) \/ EmittedAtEntry(i) \/ Raised(i)
\* The state record before the entry began: the constructor's on the mount path.
StateBefore(i) == IF Created(i) THEN InitialState ELSE state[i]

\* C1: a fetch whose handler runs after its instance was unmounted, resolved
\* or rejected, changes neither the instance's state nor its attributes and
\* emits no replace effect.
C1_LateResultDiscarded ==
    [][\A i \in Inst :
          (status[i] = "unmounted" /\ HandlerRan(i)) =>
              /\ state'[i] = state[i]
              /\ attributes'[i] = attributes[i]
              /\ replaced'[i] = replaced[i]]_vars

\* C2 as stated: on entering doServerSideRender an instance emits the replace
\* effect and issues no fetch exactly when findBlock yields an identifier that
\* differs from the block's name and from 'core/embed' and the block is not
\* 'core/embed'; otherwise it emits no replace and issues the fetch. (Stated
\* for the entries whose url attribute is set.)
C2_ReplaceUnlessGeneric ==
    [][\A i \in Inst :
          (Entered(i) /\ attributes'[i].url # Undefined) =>
              LET url == attributes'[i].url
                  found == ModuleScan[url]
              IN IF /\ found # name'[i]
                    /\ found # "core/embed"
                    /\ name'[i] # "core/embed"
                 THEN EmittedAtEntry(i) /\ ~Issued(i)
                 ELSE ~EmittedAtEntry(i) /\ Issued(i)]_vars

\* C2 amended: the replace effect is emitted, and no fetch issued, exactly
\* when the url matches none of the block's own patterns, findBlock yields an
\* identifier that differs from the block's name and from 'core/embed', and
\* the block is not 'core-embed/wordpress'; otherwise no replace is emitted,
\* and the fetch is issued unless the url attribute is unset, where the entry
\* raises a TypeError and issues nothing.
C2_ReplaceUnlessWordPress ==
    [][\A i \in Inst :
          Entered(i) =>
              LET url == attributes'[i].url
                  found == ModuleScan[url]
              IN IF url = Undefined
                 THEN Raised(i) /\ ~EmittedAtEntry(i) /\ ~Issued(i)
                 ELSE IF /\ ~OwnMatch[name'[i], url]
                         /\ found # name'[i]
                         /\ found # "core/embed"
                         /\ name'[i] # "core-embed/wordpress"
                 THEN /\ EmittedAtEntry(i) /\ ~Issued(i) /\ ~Raised(i)
                      /\ replaced'[i] = createBlock(found, url)
                 ELSE ~EmittedAtEntry(i) /\ Issued(i) /\ ~Raised(i)]_vars

\* A generic 'core/embed' block has handed itself over to the twitter block.
C2_Witness ==
    \E i \in Inst :
        /\ status[i] = "mounted"
        /\ name[i] = "core/embed"
        /\ replaced[i] = createBlock("core-embed/twitter", uOverlap)

C4_WordPressMarker ==
    [][\A i \in Inst : \A c \in DOMAIN callbacks[i] :
          LET p == callbacks[i][c]
              outcome == requests[p.url][p.k]
              payload == IF Truthy(outcome.obj.html) THEN outcome.obj.html
                         ELSE outcome.obj.result
          IN (/\ status[i] = "mounted"
              /\ HandlerRan(i)
              /\ callbacks'[i] = RemoveAt(callbacks[i], c)
              /\ outcome.st = "resolved"
              /\ payload # Undefined
              /\ \E k \in DOMAIN payload : payload[k] = WpMarker) =>
                 IF name[i] # "core-embed/wordpress"
                 THEN /\ replaced'[i] = createBlock("core-embed/wordpress", attributes[i].url)
                      /\ state'[i].html = state[i].html
                      /\ attributes'[i] = attributes[i]
                 ELSE /\ replaced'[i] = replaced[i]
                      /\ state'[i].html = payload
                      /\ state'[i].type = <<"wp-embed">>
                      /\ ~state'[i].fetching]_vars

\* A block that is not the WordPress block has handed itself over to it.
C4_Witness ==
    \E i \in Inst :
        /\ status[i] = "mounted"
        /\ name[i] # "core-embed/wordpress"
        /\ replaced[i] = createBlock("core-embed/wordpress", attributes[i].url)
        /\ state[i].html = <<>>

Min(S) == CHOOSE x \in S : \A y \in S : x <= y
Max(S) == CHOOSE x \in S : \A y \in S : x >= y

\* The definitions of list ds whose patterns the url matches.
Matching(url, ds) == {k \in DOMAIN ds : matchesPatterns(url, ds[k].patterns)}

\* C5: on the registry the module's own definitions populate, findBlock
\* returns I for every registered identifier I and every URL that matches one
\* of I's patterns, and 'core/embed' for a URL that matches no pattern.
C5_FindBlockReturnsEveryMatch ==
    (lookup # NoLookup /\ defs = "module") =>
        /\ \A k \in Matching(lookup.url, Definitions) :
               lookup.found = Definitions[k].name
        /\ Matching(lookup.url, Definitions) = {} => lookup.found = "core/embed"

\* C6: when a URL matches the patterns of several registered identifiers,
\* findBlock returns the one registered first (and 'core/embed' when none
\* matches); on the same definitions registered in the opposite order it
\* returns the one that is last here.
C6_FirstRegisteredWins ==
    lookup # NoLookup =>
        LET ds == DefinitionLists[defs]
            m == Matching(lookup.url, ds)
        IN IF m = {} THEN lookup.found = "core/embed"
           ELSE /\ lookup.found = ds[Min(m)].name
                /\ ScanFrom(lookup.url, Registered(Reverse(ds), Len(ds)), Reverse(ds), 1)
                       = ds[Max(m)].name

\* With youtube registered before twitter, the URL both match goes to youtube.
C6_Witness ==
    /\ defs = "youtube-twitter"
    /\ lookup = [url |-> uOverlap, found |-> "core-embed/youtube"]

C8_OneFetchPerInstance ==
    \A i \in Inst : Len(callbacks[i]) <= 1

\* A mounted instance shows the loading indicator while its fetch is pending.
C8_Witness ==
    \E i \in Inst :
        /\ status[i] = "mounted"
        /\ Len(callbacks[i]) = 1
        /\ requests[callbacks[i][1].url][callbacks[i][1].k] = Pending
        /\ RenderView(state[i]) = "loading"

\* C9: a fetch that settles for a mounted instance that is not being replaced
\* leaves it rendered (fetching false, html non-empty) or in error (fetching
\* false, error true).
C9_SettlesRenderedOrError ==
    [][\A i \in Inst :
          (status[i] = "mounted" /\ HandlerRan(i) /\ replaced'[i] = NoBlock) =>
              /\ ~state'[i].fetching
              /\ Truthy(state'[i].html) \/ state'[i].error]_vars

\* C10: a rejection for a mounted instance sets fetching = false and
\* error = true and leaves html, type and the attributes alone, so that the
\* form with the error message is rendered next; a later submission that
\* issues a fetch has cleared error and set fetching, and cannot fail on an
\* unset url.
C10_RejectionThenRetry ==
    [][\A i \in Inst :
          /\ \A c \in DOMAIN callbacks[i] :
                (/\ status[i] = "mounted"
                 /\ HandlerRan(i)
                 /\ callbacks'[i] = RemoveAt(callbacks[i], c)
                 /\ requests[callbacks[i][c].url][callbacks[i][c].k] = Rejected) =>
                    /\ state'[i] = [state[i] EXCEPT !.fetching = FALSE, !.error = TRUE]
                    /\ attributes'[i] = attributes[i]
                    /\ state'[i].html = <<>>
                    /\ RenderView(state'[i]) = "form"
          /\ (state[i].error /\ status[i] = "mounted") =>
                /\ attributes[i].url # Undefined
                /\ ~Raised(i)
                /\ Issued(i) => (~state'[i].error /\ state'[i].fetching)]_vars

\* The form with the error message: a mounted instance after a rejection.
C10_Witness ==
    \E i \in Inst :
        /\ status[i] = "mounted"
        /\ state[i].error
        /\ ~state[i].fetching
        /\ RenderView(state[i]) = "form"
        /\ requests[attributes[i].url] = <<Rejected>>

\* C11: no operation of an embed instance (mount, form submission, fetch
\* continuation) raises an exception, whatever the url attribute is.
C11_NoException ==
    \A i \in Inst : ~threw[i]


\* The fulfilment handler of mounted instance i ran in this step, with obj.
SucceededWith(i, obj) ==
    /\ status[i] = "mounted"
    /\ callbacks[i] # <<>>
    /\ callbacks'[i] = Tail(callbacks[i])
    /\ requests[callbacks[i][1].url][callbacks[i][1].k] = Resolved(obj)

\* The markup of a response: html, or else result.
Payload(obj) == IF Truthy(obj.html) THEN obj.html ELSE obj.result

\* C12: when a successful response is rendered locally, the providerNameSlug
\* stored in state and attributes is the kebab-cased lower-case provider name
\* if provider_name is present and non-empty, and the kebab-cased lower-case
\* block title if it is empty or absent.
C12_SlugFallsBackToTitle ==
    [][\A i \in Inst : \A obj \in Responses :
          (SucceededWith(i, obj) /\ Truthy(state'[i].html)) =>
              LET source == IF Truthy(obj.provider_name) THEN obj.provider_name
                            ELSE TitleOf(name[i])
                  slug == JoinWords([k \in DOMAIN source |-> ToLower(source[k])], "-")
              IN /\ state'[i].providerNameSlug = slug
                 /\ attributes'[i].providerNameSlug = slug]_vars

\* C13: a successful response without a type whose markup is non-empty and
\* does not hold the WordPress marker is stored with type 'rich', in state and
\* in the type attribute.
C13_TypeDefaultsToRich ==
    [][\A i \in Inst : \A obj \in Responses :
          (/\ SucceededWith(i, obj)
           /\ obj.type = Undefined
           /\ Truthy(Payload(obj))
           /\ \A k \in DOMAIN Payload(obj) : Payload(obj)[k] # WpMarker) =>
              /\ state'[i].type = <<"rich">>
              /\ attributes'[i].type = <<"rich">>
              /\ state'[i].html = Payload(obj)]_vars

\* An instance rendered from a response that had no type.
C13_Witness ==
    \E i \in Inst :
        /\ status[i] = "mounted"
        /\ state[i].html = PlainHtml
        /\ state[i].type = <<"rich">>
        /\ attributes[i].type = <<"rich">>
        /\ requests[attributes[i].url] # <<>>
        /\ requests[attributes[i].url][1].obj.type = Undefined

\* <p><img src alt width="100%"/></p> as a sequence of fragments
PhotoFragment(src, alt) ==
    <<"<p><img src=\"">> \o src \o <<"\" alt=\"">> \o alt \o <<"\" width=\"100%\"/></p>">>

ViewHost ==
    LET h == Host(view.attributes.url)
    IN IF Len(h) >= 2 /\ h[1] = "www" /\ h[2] = "." THEN SubSeq(h, 3, Len(h)) ELSE h

\* The url of the last render() call has a host component.
ViewHasHost ==
    view.attributes.url # Undefined /\ Host(view.attributes.url) # Null

\* C15 as stated: render gives the loading indicator when fetching; else the
\* form when html is empty, with the error message iff error; else the raw
\* wrapper when type is 'wp-embed', else the link-only placeholder when the
\* host is on the denylist, else the sandbox (for urls that have a host).
C15_RenderPriorityTypeFirst ==
    (view.op = "render" /\ (Truthy(view.state.html) => ViewHasHost)) =>
        IF view.state.fetching THEN view.out.kind = "loading"
        ELSE IF ~Truthy(view.state.html)
        THEN view.out.kind = "form" /\ (view.out.error <=> view.state.error)
        ELSE IF view.state.type = <<"wp-embed">> THEN view.out.kind = "raw"
        ELSE IF ViewHost = <<"facebook", ".", "com">> THEN view.out.kind = "placeholder"
        ELSE view.out.kind = "sandbox"

\* C15: render gives the loading indicator when fetching; else the form when
\* html is empty, with the error message iff error; else, for a url that has
\* a host, the link-only placeholder when the host without 'www.' is on the
\* denylist (whatever the type), else the raw wrapper when type is
\* 'wp-embed', else the sandbox; for a url without a host it raises.
C15_RenderPriorityHostFirst ==
    view.op = "render" =>
        IF view.state.fetching THEN view.out.kind = "loading"
        ELSE IF ~Truthy(view.state.html)
        THEN view.out.kind = "form" /\ (view.out.error <=> view.state.error)
        ELSE IF ~ViewHasHost THEN view.out.kind = "TypeError"
        ELSE IF ViewHost = <<"facebook", ".", "com">> THEN view.out.kind = "placeholder"
        ELSE IF view.state.type = <<"wp-embed">> THEN view.out.kind = "raw"
        ELSE view.out.kind = "sandbox"

\* A WordPress embed of a facebook.com url is rendered as the placeholder.
C15_Witness ==
    /\ view.op = "render"
    /\ view.state.type = <<"wp-embed">>
    /\ Truthy(view.state.html)
    /\ ~view.state.fetching
    /\ view.attributes.url = uFacebookUpper
    /\ view.out.kind = "placeholder"

\* C16: save returns nothing when the url attribute is empty or unset;
\* otherwise one figure whose classes are 'wp-block-embed' and, each iff its
\* attribute is non-empty, 'align<align>', 'is-type-<type>' and
\* 'is-provider-<slug>', holding the url on its own line and a figcaption iff
\* the caption is non-empty.
C16_SaveOutput ==
    view.op = "save" =>
        LET a == view.attributes
            out == view.out
            Has(v) == v # Undefined /\ v # <<>>
            HasClass(c) == \E k \in DOMAIN out.className : out.className[k] = c
            Count(v) == IF Has(v) THEN 1 ELSE 0
        IN IF ~Has(a.url) THEN out = [kind |-> "null"]
           ELSE /\ out.kind = "figure"
                /\ HasClass(<<"wp-block-embed">>)
                /\ Has(a.align) <=> HasClass(<<"align">> \o a.align)
                /\ Has(a.type) <=> HasClass(<<"is-type-">> \o a.type)
                /\ Has(a.providerNameSlug) <=>
                       HasClass(<<"is-provider-">> \o a.providerNameSlug)
                /\ Len(out.className) = 1 + Count(a.align) + Count(a.type)
                                          + Count(a.providerNameSlug)
                /\ out.children = <<"\n">> \o a.url \o <<"\n">>
                /\ (out.figcaption # Null) <=> Has(a.caption)
                /\ Has(a.caption) => out.figcaption = a.caption

\* save has produced a figure with all three optional classes and a caption.
C16_Witness ==
    /\ view.op = "save"
    /\ view.out.kind = "figure"
    /\ Len(view.out.className) = 4
    /\ view.out.figcaption = <<"a caption">>

\* C17: a 'core-embed/wordpress' block never hands itself over, neither when
\* it enters the fetch path with a url that another block's patterns match
\* nor when its fetch succeeds; and findBlock never yields
\* 'core-embed/wordpress', which has no patterns and so no registry entry.
C17_WordPressNeverReplaces ==
    /\ \A i \in Inst : name[i] = "core-embed/wordpress" => replaced[i] = NoBlock
    /\ \A k \in DOMAIN blockPatterns : blockPatterns[k].name # "core-embed/wordpress"
    /\ \A url \in AllUrls : findBlock(url) # "core-embed/wordpress"

\* A WordPress block renders a WordPress embed of a url that the twitter
\* block is registered for, and has emitted nothing.
C17_Witness ==
    \E i \in Inst :
        /\ status[i] = "mounted"
        /\ name[i] = "core-embed/wordpress"
        /\ attributes[i].url = uOverlap
        /\ state[i].html = WpHtml
        /\ state[i].type = <<"wp-embed">>
        /\ replaced[i] = NoBlock

\* The blocks of the chain that ends in the block of slot i, oldest first.
ChainOf(i) == chain[i] \o <<name[i]>>

\* The replacements of that chain that went to the WordPress block.
ToWordPress(i) == {k \in DOMAIN chain[i] : ChainOf(i)[k + 1] = "core-embed/wordpress"}

\* C18: a chain of replacements, each new block mounting with the same url,
\* has at most two replace effects, at most one to 'core-embed/wordpress' and
\* at most one to the block findBlock names; no block occurs twice in it; and
\* the block it ends in has fetched its url and emits nothing further.
C18_ReplacementTerminates ==
    \A i \in Inst :
        status[i] = "mounted" =>
            /\ Len(chain[i]) <= 2
            /\ Cardinality(ToWordPress(i)) <= 1
            /\ Cardinality(DOMAIN chain[i] \ ToWordPress(i)) <= 1
            /\ \A j, k \in DOMAIN ChainOf(i) : j < k => ChainOf(i)[j] # ChainOf(i)[k]
            /\ replaced[i] # NoBlock => callbacks[i] = <<>>
            /\ chain[i] # <<>> =>
                  /\ ~threw[i]
                  /\ Truthy(attributes[i].url)
                  /\ replaced[i] = NoBlock => requests[attributes[i].url] # <<>>
            /\ Len(chain[i]) = 2 => replaced[i] = NoBlock

\* The generic block became the twitter block, which became the WordPress
\* block, which has rendered the embed.
C18_Witness ==
    \E i \in Inst :
        /\ status[i] = "mounted"
        /\ chain[i] = <<"core/embed", "core-embed/twitter">>
        /\ name[i] = "core-embed/wordpress"
        /\ state[i].html = WpHtml
        /\ ~state[i].fetching

\* C19: once the html of an instance is non-empty, no step of that instance
\* changes its state record (html, type, fetching, error), issues a fetch or
\* emits a replace effect, and the form is not rendered.
C19_RenderedIsAbsorbing ==
    [][\A i \in Inst :
          (Truthy(state[i].html) /\ status'[i] # "free") =>
              /\ state'[i] = state[i]
              /\ callbacks'[i] = callbacks[i]
              /\ replaced'[i] = replaced[i]
              /\ chain'[i] = chain[i]
              /\ name'[i] = name[i]
              /\ ~state[i].fetching
              /\ ~state[i].error
              /\ callbacks[i] = <<>>]_vars

\* An instance that failed once, was given another url and is rendered now.
C19_Witness ==
    \E i \in Inst :
        /\ status[i] = "mounted"
        /\ Truthy(state[i].html)
        /\ \E url \in InstUrls : url # attributes[i].url /\ requests[url] = <<Rejected>>

\* C20: once the fetch of a url has been rejected, no new request is made for
\* it, every later fetch of it by any instance waits on the rejected promise,
\* and every handler that runs for it leaves its instance in the error state
\* without markup.
C20_FailureIsPermanent ==
    [][\A url \in InstUrls :
          (\E k \in DOMAIN requests[url] : requests[url][k] = Rejected) =>
              /\ requests'[url] = requests[url]
              /\ cache'[url] = cache[url]
              /\ \A i \in Inst :
                    /\ (Issued(i) /\ attributes'[i].url = url) =>
                          LET p == callbacks'[i][Len(callbacks'[i])]
                          IN p.url = url /\ p.hit /\ requests[url][p.k] = Rejected
                    /\ (HandlerRan(i) /\ callbacks[i][1].url = url) =>
                          /\ state'[i].error
                          /\ ~state'[i].fetching
                          /\ ~Truthy(state'[i].html)]_vars

\* A fetch of a url whose request was rejected earlier: answered from the
\* cache with the rejected promise.
C20_Witness ==
    \E i \in Inst :
        /\ callbacks[i] # <<>>
        /\ callbacks[i][1].hit
        /\ requests[callbacks[i][1].url][callbacks[i][1].k] = Rejected
        /\ state[i].fetching

\* C21: the type and providerNameSlug attributes of an instance are written
\* only by the handler step that sets a non-empty html, with the values it
\* puts in state; so an instance with html has them equal to its state's; and
\* a handler that sets no html (rejection, result after unmount, replace,
\* success without markup that is not a photo), a replace at entry and the
\* issue of a fetch leave every attribute as it was.
C21_AttributesWrittenWithHtml ==
    [][\A i \in Inst :
          /\ (/\ ~Created(i)
              /\ status'[i] # "free"
              /\ \/ attributes'[i].type # attributes[i].type
                 \/ attributes'[i].providerNameSlug # attributes[i].providerNameSlug) =>
                 /\ HandlerRan(i)
                 /\ status[i] = "mounted"
                 /\ ~Truthy(state[i].html)
                 /\ Truthy(state'[i].html)
          /\ Truthy(state'[i].html) =>
                 /\ attributes'[i].type = state'[i].type
                 /\ attributes'[i].providerNameSlug = state'[i].providerNameSlug
          /\ (HandlerRan(i) /\ ~Truthy(state'[i].html)) => attributes'[i] = attributes[i]
          /\ ((EmittedAtEntry(i) \/ Issued(i) \/ Raised(i)) /\ ~Created(i)) =>
                 attributes'[i] = attributes[i]]_vars

\* An instance rendered from a response with a provider name: both attributes
\* hold what its state holds.
C21_Witness ==
    \E i \in Inst :
        /\ status[i] = "mounted"
        /\ Truthy(state[i].html)
        /\ state[i].providerNameSlug = <<"youtube">>
        /\ attributes[i].providerNameSlug = <<"youtube">>
        /\ attributes[i].type = state[i].type

====
